---------------------------- MODULE Spec2Model ----------------------------
(***************************************************************************)
(* GitHub Projects MCP server: the API client (core/client.py) and the     *)
(* tool dispatcher (server.py) as a state machine.                         *)
(*                                                                         *)
(* One invocation at a time (the server is single-threaded,                *)
(* call-and-response).  An invocation is either a tool call (server.py) or *)
(* a direct call of a client method (core/client.py, as the tests do).     *)
(* The remote service is the environment: every self.client.execute(...)   *)
(* is one step whose outcome is chosen nondeterministically.               *)
(*                                                                         *)
(* Texts are sequences of symbols.  A symbol is one character, or a whole  *)
(* fixed chunk of a document that the program only passes along (a fixed   *)
(* GraphQL document, a template line).  lower() and the substring test     *)
(* `in` are computed symbol by symbol.                                     *)
(***************************************************************************)
EXTENDS Integers, Sequences, FiniteSets, TLC

VARIABLES
    env,            \* process environment: GITHUB_TOKEN set?, GITHUB_API_MAX_RETRIES, GITHUB_API_RETRY_DELAY,
                    \* MCP_TRANSPORT (None when unset)
    github_client,  \* server.py global `github_client`: NoClient or a client object
    pc,             \* "start": main() not yet serving; "exited": the process has ended;
                    \* "idle": no invocation running; "attempt": inside _execute_with_retry, before
                    \* client.execute; "done": the invocation has ended and its outcome is in result
    inv,            \* the current (or last) invocation: layer, op and arguments, and whether
                    \* get_github_client() constructed the client object in it
    stage,          \* call site of the running _execute_with_retry: "main", "custom" (advanced try body), "fallback"
    xlog,           \* the _execute_with_retry activations of this invocation, in order
    calls,          \* the client methods entered by this invocation, in order
    result,         \* outcome of the last finished invocation
    config,         \* config.py global `config`: the Config object (_initialized, _transport)
    cursor          \* the caller's side: the pageInfo.endCursor it holds for its next call, taken from
                    \* the page a filtering tool has just returned with hasNextPage true (None otherwise)

vars == <<env, github_client, pc, inv, stage, xlog, calls, result, config, cursor>>

----------------------------------------------------------------------------
(* Bounds of the model *)

\* GITHUB_API_MAX_RETRIES ranges over MinRetries..MaxRetries
MaxRetries == 2

----------------------------------------------------------------------------
(* Python values: a type tag and a payload *)

None == [t |-> "NoneType", v |-> <<>>]
PyStr(s) == [t |-> "str", v |-> s]
PyInt(n) == [t |-> "int", v |-> n]
PyFloat(n) == [t |-> "float", v |-> n]
PyBool(b) == [t |-> "bool", v |-> b]
PyDict(f) == [t |-> "dict", v |-> f]
PyList(s) == [t |-> "list", v |-> s]

\* the classes a value of type t is an instance of (bool is a subclass of int)
Mro(t) == IF t = "bool" THEN {"int", "bool", "object"} ELSE {t, "object"}

\* isinstance(x, classes) with a tuple of classes
IsInstance(x, classes) == Mro(x.t) \cap classes # {}

\* truth value of x, as `if x:` tests it
Truthy(x) ==
    CASE x.t = "NoneType" -> FALSE
      [] x.t = "str" -> x.v # <<>>
      [] x.t = "int" -> x.v # 0
      [] x.t = "float" -> x.v # 0
      [] x.t = "bool" -> x.v
      [] x.t = "dict" -> DOMAIN x.v # {}
      [] x.t = "list" -> x.v # <<>>
      [] OTHER -> TRUE

----------------------------------------------------------------------------
(* Texts *)

UpperChars == <<"A", "B", "C", "D", "E", "F", "G", "H", "I", "J", "K", "L", "M",
                "N", "O", "P", "Q", "R", "S", "T", "U", "V", "W", "X", "Y", "Z">>
LowerChars == <<"a", "b", "c", "d", "e", "f", "g", "h", "i", "j", "k", "l", "m",
                "n", "o", "p", "q", "r", "s", "t", "u", "v", "w", "x", "y", "z">>

LowerChar(c) ==
    IF \E i \in DOMAIN UpperChars : UpperChars[i] = c
    THEN LowerChars[CHOOSE i \in DOMAIN UpperChars : UpperChars[i] = c]
    ELSE c

\* str.lower()
Lower(s) == [i \in 1..Len(s) |-> LowerChar(s[i])]

\* `needle in hay` for two str
Contains(needle, hay) ==
    \E i \in 0..(Len(hay) - Len(needle)) : SubSeq(hay, i + 1, i + Len(needle)) = needle

RateLimitText == <<"r", "a", "t", "e", " ", "l", "i", "m", "i", "t">>

----------------------------------------------------------------------------
(* The remote service: outcomes of one self.client.execute(...) *)

\* error descriptions the transport can raise, str(e)
ErrRateMixed == <<"A", "P", "I", " ", "R", "a", "t", "e", " ", "L", "i", "m", "i", "t", "!">>
ErrNotFound == <<"n", "o", "t", " ", "f", "o", "u", "n", "d">>
ErrRateGlued == <<"r", "a", "t", "e", "l", "i", "m", "i", "t">>

\* a response: `full` tells whether the root field of the data is an object (else null)
RemoteOk(full) == [full |-> full, kind |-> "ok", text |-> <<>>, response |-> FALSE, status |-> None]
\* an exception e: str(e) = text; response: e has a truthy `response`; status = its status_code
RemoteErr(text, response, status) ==
    [full |-> FALSE, kind |-> "err", text |-> text, response |-> response, status |-> status]

RemoteOutcomes ==
    { RemoteOk(TRUE), RemoteOk(FALSE),
      RemoteErr(ErrRateMixed, FALSE, None),
      RemoteErr(ErrNotFound, TRUE, PyInt(404)),
      RemoteErr(ErrRateGlued, FALSE, None) }

\* a response whose node is a project, with the page of its items the filtering tools read
RemotePage(items_data) ==
    [full |-> TRUE, kind |-> "ok", text |-> <<>>, response |-> FALSE, status |-> None,
     items_data |-> items_data]

----------------------------------------------------------------------------
(* Outcomes of a call: a returned value or a raised exception *)

Return(value) == [kind |-> "return", status |-> None, value |-> value, exc |-> "", msg |-> <<>>]
Raise(exc, msg, status) == [kind |-> "raise", status |-> status, value |-> None, exc |-> exc, msg |-> msg]

\* the data of a response to (query, variables)
Response(full, query, variables) ==
    [t |-> "response", v |-> [full |-> full, query |-> query, variables |-> variables]]
\* what result[root][field] yields on a full response
Page(resp) == [t |-> "page", v |-> resp.v]

\* GitHubAPIError.__init__ / RateLimitError.__init__
GitHubAPIError(message, status_code) == Raise("GitHubAPIError", message, status_code)
RateLimitError == Raise("RateLimitError", <<"Rate limit exceeded">>, None)

NotSubscriptable == <<"'NoneType' object is not subscriptable">>

\* result[a] (depth 1), result[a][b] (depth 2), result[a][b][c] (depth 3) or result itself (depth 0)
Extract(r, depth) ==
    IF r.kind = "raise" \/ depth = 0 THEN r
    ELSE IF r.value.t = "NoneType" THEN Raise("TypeError", NotSubscriptable, None)
    ELSE IF ~r.value.v.full
    THEN IF depth = 1 THEN Return(None) ELSE Raise("TypeError", NotSubscriptable, None)
    ELSE Return(Page(r.value))

----------------------------------------------------------------------------
(* GitHubProjectsClient *)

\* serial: how many GitHubProjectsClient objects the process has constructed up to this one
NoClient == [max_retries |-> 0, retry_delay |-> 0, built |-> FALSE, serial |-> 0]
\* GitHubProjectsClient.__init__
NewClient(max_retries, retry_delay, serial) ==
    [max_retries |-> max_retries, retry_delay |-> retry_delay, built |-> TRUE, serial |-> serial]

\* a variant of IsRateLimit that forgets .lower()
IsRateLimitCaseSensitive(text) == Contains(RateLimitText, text)

\* a variant of IsRateLimit that looks for "rate" alone
IsRateLimitLoose(text) == Contains(<<"r", "a", "t", "e">>, Lower(text))

\* "rate limit" in str(e).lower()
IsRateLimit(text) == Contains(RateLimitText, Lower(text))

\* a variant of ShouldRetry that retries a rate-limit failure also on the last attempt
ShouldRetryAlways(text, attempt, max_retries) == IsRateLimit(text)

\* the retry branch of the except clause
ShouldRetry(text, attempt, max_retries) == IsRateLimit(text) /\ attempt < max_retries

\* one activation of _execute_with_retry
NewActivation(query, variables) ==
    [query |-> query, variables |-> variables, r |-> Return(None), outcomes |-> <<>>,
     sleeps |-> <<>>, state |-> "running"]

\* one iteration of the for loop of _execute_with_retry: self.client.execute answers o
RetryStep(client, act, o) ==
    LET attempt == Len(act.outcomes)
        seen == [act EXCEPT !.outcomes = Append(@, o)]
    IN  IF o.kind = "ok"
        THEN [seen EXCEPT !.state = "returned",
                          !.r = Return(Response(o.full, act.query, act.variables))]
        ELSE IF ShouldRetry(o.text, attempt, client.max_retries)
        THEN LET slept == [seen EXCEPT !.sleeps = Append(@, client.retry_delay)]
             IN  IF attempt + 1 < client.max_retries + 1
                 THEN slept
                 ELSE [slept EXCEPT !.state = "returned", !.r = Return(None)]
        ELSE IF IsRateLimit(o.text)
        THEN [seen EXCEPT !.state = "raised", !.r = RateLimitError]
        ELSE IF o.response
        THEN [seen EXCEPT !.state = "raised", !.r = GitHubAPIError(o.text, o.status)]
        ELSE [seen EXCEPT !.state = "raised", !.r = GitHubAPIError(o.text, None)]


----------------------------------------------------------------------------
(* Documents and variables *)

\* the fixed GraphQL documents, each one chunk
GetViewerProjectsDoc == <<"query GetViewerProjects">>
GetOrgProjectsDoc == <<"query GetOrgProjects">>
GetUserProjectsDoc == <<"query GetUserProjects">>
GetProjectItemsDoc == <<"query GetProjectItems">>
UpdateProjectItemFieldDoc == <<"mutation UpdateProjectItemField">>
GetProjectDoc == <<"query GetProject">>
GetProjectFieldsDoc == <<"query GetProjectFields">>
AddProjectItemDoc == <<"mutation AddProjectItem">>
RemoveProjectItemDoc == <<"mutation RemoveProjectItem">>
ArchiveProjectItemDoc == <<"mutation ArchiveProjectItem">>
CreateProjectDoc == <<"mutation CreateProject">>
UpdateProjectDoc == <<"mutation UpdateProject">>
DeleteProjectDoc == <<"mutation DeleteProject">>

\* opaque identifiers the callers pass
OrgLogin == PyStr(<<"octo-org">>)
UserLogin == PyStr(<<"octocat">>)
ProjectId == PyStr(<<"PVT_1">>)
ItemId == PyStr(<<"PVTI_1">>)
FieldId == PyStr(<<"PVTF_1">>)
ContentId == PyStr(<<"I_1">>)
OwnerId == PyStr(<<"O_1">>)

\* variables = {...}; if after: variables["after"] = after
WithAfter(variables, after) ==
    IF Truthy(after) THEN ("after" :> after) @@ variables ELSE variables

\* a dict payload is a sequence of [k, val] items in insertion order
DictKeys(d) == {d[i].k : i \in DOMAIN d}
DictGet(d, key) == d[CHOOSE i \in DOMAIN d : d[i].k = key /\ \A j \in DOMAIN d : d[j].k = key => j <= i].val

\* one entry of a dict
Entry(key, value) == [k |-> key, val |-> value]

\* variables.update(custom_variables)
Update(variables, d) ==
    [key \in DOMAIN variables \cup DictKeys(d) |->
        IF key \in DictKeys(d) THEN DictGet(d, key) ELSE variables[key]]

\* a variant of ClampFirst without the floor
ClampFirstNoFloor(first) == IF first > 100 THEN 100 ELSE first

\* Enforce GitHub API pagination limit (client methods)
ClampFirst(first) == IF first > 100 THEN 100 ELSE IF first < 1 THEN 1 ELSE first

\* Enforce reasonable pagination limit (tools)
ToolClampFirst(first) == IF first > 25 THEN 25 ELSE first

----------------------------------------------------------------------------
(* execute_custom_query: the keyword gate *)

KwMutation == <<"m", "u", "t", "a", "t", "i", "o", "n">>
KwSubscription == <<"s", "u", "b", "s", "c", "r", "i", "p", "t", "i", "o", "n">>
KwSchema == <<"_", "_", "s", "c", "h", "e", "m", "a">>
KwType == <<"_", "_", "t", "y", "p", "e">>

dangerous_keywords == <<KwMutation, KwSubscription, KwSchema, KwType>>

\* a variant of QueryLower that forgets .lower()
QueryLowerIdentity(query) == query

\* query_lower = query.lower()
QueryLower(query) == Lower(query)

\* the indexes of the keywords found in the query, by the loop's test
FoundKeywords(query) ==
    {i \in DOMAIN dangerous_keywords : Contains(dangerous_keywords[i], QueryLower(query))}

\* the first keyword of the list that the loop finds
FirstKeyword(query) ==
    dangerous_keywords[CHOOSE i \in FoundKeywords(query) : \A j \in FoundKeywords(query) : i <= j]

ForbiddenMsg(keyword) == <<"Query contains forbidden keyword: ">> \o keyword

----------------------------------------------------------------------------
(* get_project_items_advanced: query composition *)

DefaultFields == <<"id type createdAt updatedAt isArchived content fieldValues(first: 10)">>

\* the declared type of an extra variable
VarType(var_value) ==
    IF IsInstance(var_value, {"str"}) THEN "String"
    ELSE IF IsInstance(var_value, {"int"}) THEN "Int"
    ELSE "Boolean"

\* query_parts[0] += f", ${var_name}: {var_type}" for every item of the dict
RECURSIVE VarDeclarations(_)
VarDeclarations(d) ==
    IF d = <<>> THEN <<>>
    ELSE <<",", " ", "$", Head(d).k, ":", " ", VarType(Head(d).val)>> \o VarDeclarations(Tail(d))

\* "\n".join(query_parts)
ComposeQuery(custom_fields, custom_filters, custom_variables) ==
    LET fields == IF Truthy(custom_fields) THEN custom_fields.v ELSE DefaultFields
        decls == IF Truthy(custom_variables) THEN VarDeclarations(custom_variables.v) ELSE <<>>
        items == IF Truthy(custom_filters)
                 THEN <<"      items(first: $first, after: $after", ",", " ">> \o custom_filters.v \o <<")", " ", "{">>
                 ELSE <<"      items(first: $first, after: $after) {">>
    IN  <<"query GetProjectItemsAdvanced($id: ID!, $first: Int!, $after: String">>
        \o decls \o <<")", " ", "{", "\n">>
        \o <<"  node(id: $id) {", "\n", "    ... on ProjectV2 {", "\n">>
        \o items \o <<"\n">>
        \o <<"        pageInfo { hasNextPage endCursor }", "\n", "        nodes {", "\n">>
        \o <<" ", " ", " ", " ", " ", " ", " ", " ", " ", " ">> \o fields \o <<"\n">>
        \o <<"        }", "\n", "      }", "\n", "    }", "\n", "  }", "\n", "}">>

\* variables = {"id": project_id, "first": first}; after; update
AdvancedVariables(project_id, first, after, custom_variables) ==
    LET base == WithAfter(("id" :> project_id) @@ ("first" :> PyInt(first)), after)
    IN  IF Truthy(custom_variables) THEN Update(base, custom_variables.v) ELSE base


----------------------------------------------------------------------------
(* update_item_field_value: shaping the value *)

DigitText == <<"0", "1", "2", "3", "4", "5", "6", "7", "8", "9">>

\* str(value) / repr of the items of a list
RECURSIVE Str(_)
Str(value) ==
    CASE value.t = "NoneType" -> <<"N", "o", "n", "e">>
      [] value.t = "bool" -> IF value.v THEN <<"T", "r", "u", "e">> ELSE <<"F", "a", "l", "s", "e">>
      [] value.t = "int" -> <<DigitText[value.v + 1]>>
      [] value.t = "float" -> <<DigitText[value.v + 1], ".", "0">>
      [] value.t = "str" -> value.v
      [] value.t = "list" ->
            IF value.v = <<>> THEN <<"[", "]">>
            ELSE <<"[">> \o Str(Head(value.v)) \o <<"]">>
      [] OTHER -> <<"?">>

\* Format value based on type
FormatValue(value) ==
    IF IsInstance(value, {"str"}) THEN PyDict(<<[k |-> "text", val |-> value]>>)
    ELSE IF IsInstance(value, {"int", "float"}) THEN PyDict(<<[k |-> "number", val |-> value]>>)
    ELSE IF IsInstance(value, {"dict"}) THEN value
    ELSE PyDict(<<[k |-> "text", val |-> PyStr(Str(value))]>>)

----------------------------------------------------------------------------
(* A run: the progress of one invocation through the client *)

\* pc: "attempt" (waiting for the remote), "returned"/"raised" (a callee ended with r), "done" (invocation over)
Run0 == [pc |-> "done", stage |-> "main", xlog |-> <<>>, calls |-> <<>>, r |-> Return(None)]

Called(run, method) == [run EXCEPT !.calls = Append(@, method)]
Done(run, r) == [run EXCEPT !.pc = "done", !.r = r]

\* entry of _execute_with_retry: range(self.max_retries + 1) may be empty, and then the method returns None
EnterRetry(client, run, stg, query, variables) ==
    LET run1 == [Called(run, "_execute_with_retry") EXCEPT
                    !.stage = stg, !.xlog = Append(@, NewActivation(query, variables))]
    IN  IF client.max_retries + 1 > 0
        THEN [run1 EXCEPT !.pc = "attempt"]
        ELSE [run1 EXCEPT !.pc = "returned", !.r = Return(None),
                          !.xlog[Len(run1.xlog)].state = "returned"]

\* the arguments of an invocation, those an operation does not take at their defaults
Args(op) ==
    [value |-> None, query |-> <<>>, variables |-> None, after |-> None, first |-> 0,
     custom_fields |-> None, custom_filters |-> None, custom_variables |-> None, op |-> op,
     filters |-> None, field_id |-> <<>>, milestone_name |-> <<>>,
     title |-> None, description |-> None, readme |-> None, public |-> None]

EmptyDict == [key \in {} |-> None]

get_organization_projects(client, run, a) ==
    EnterRetry(client, Called(run, "get_organization_projects"), "main", GetOrgProjectsDoc,
               WithAfter(("login" :> OrgLogin) @@ ("first" :> PyInt(ClampFirst(a.first))), a.after))

get_user_projects(client, run, a) ==
    EnterRetry(client, Called(run, "get_user_projects"), "main", GetUserProjectsDoc,
               WithAfter(("login" :> UserLogin) @@ ("first" :> PyInt(ClampFirst(a.first))), a.after))

get_project_items(client, run, stg, first, after) ==
    EnterRetry(client, Called(run, "get_project_items"), stg, GetProjectItemsDoc,
               WithAfter(("id" :> ProjectId) @@ ("first" :> PyInt(ClampFirst(first))), after))

execute_custom_query(client, run, stg, query, variables) ==
    LET run1 == Called(run, "execute_custom_query")
    IN  IF FoundKeywords(query) # {}
        THEN [run1 EXCEPT !.stage = stg, !.pc = "raised",
                          !.r = Raise("ValueError", ForbiddenMsg(FirstKeyword(query)), None)]
        ELSE EnterRetry(client, run1, stg, query, variables)

get_project_items_advanced(client, run, a) ==
    LET first == ClampFirst(a.first)
    IN  execute_custom_query(client, Called(run, "get_project_items_advanced"), "custom",
            ComposeQuery(a.custom_fields, a.custom_filters, a.custom_variables),
            AdvancedVariables(ProjectId, first, a.after, a.custom_variables))

update_item_field_value(client, run, a) ==
    EnterRetry(client, Called(run, "update_item_field_value"), "main", UpdateProjectItemFieldDoc,
               ("projectId" :> ProjectId) @@ ("itemId" :> ItemId) @@ ("fieldId" :> FieldId)
                   @@ ("value" :> FormatValue(a.value)))

get_project(client, run, a) ==
    EnterRetry(client, Called(run, "get_project"), "main", GetProjectDoc, "id" :> ProjectId)

get_project_fields(client, run, a) ==
    EnterRetry(client, Called(run, "get_project_fields"), "main", GetProjectFieldsDoc, "id" :> ProjectId)

add_item_to_project(client, run, a) ==
    EnterRetry(client, Called(run, "add_item_to_project"), "main", AddProjectItemDoc,
               ("projectId" :> ProjectId) @@ ("contentId" :> ContentId))

remove_item_from_project(client, run, a) ==
    EnterRetry(client, Called(run, "remove_item_from_project"), "main", RemoveProjectItemDoc,
               ("projectId" :> ProjectId) @@ ("itemId" :> ItemId))

archive_item(client, run, a) ==
    EnterRetry(client, Called(run, "archive_item"), "main", ArchiveProjectItemDoc,
               ("projectId" :> ProjectId) @@ ("itemId" :> ItemId))

\* if x: variables[key] = x
WithTruthy(variables, key, x) == IF Truthy(x) THEN variables @@ (key :> x) ELSE variables

create_project(client, run, a) ==
    EnterRetry(client, Called(run, "create_project"), "main", CreateProjectDoc,
               WithTruthy(("ownerId" :> OwnerId) @@ ("title" :> a.title), "description", a.description))

\* public is sent whenever it is not None, False included
update_project(client, run, a) ==
    LET texts == WithTruthy(WithTruthy(WithTruthy("projectId" :> ProjectId, "title", a.title),
                                       "description", a.description), "readme", a.readme)
    IN  EnterRetry(client, Called(run, "update_project"), "main", UpdateProjectDoc,
                   IF a.public # None THEN texts @@ ("public" :> a.public) ELSE texts)

delete_project(client, run, a) ==
    EnterRetry(client, Called(run, "delete_project"), "main", DeleteProjectDoc, "projectId" :> ProjectId)

\* how deep the caller subscripts the result of _execute_with_retry
Depth(op) ==
    CASE op = "execute_custom_query" -> 0
      [] op \in {"get_project", "remove_item_from_project"} -> 1
      [] op = "get_project_fields" -> 3
      [] OTHER -> 2

\* the `if custom_fields or custom_filters` of the except clause of get_project_items_advanced
FallsBack(custom_fields, custom_filters) ==
    Truthy(custom_fields) \/ Truthy(custom_filters)

\* except Exception as e: in get_project_items_advanced
AdvancedExcept(client, run, a, e) ==
    IF FallsBack(a.custom_fields, a.custom_filters)
    THEN LET run2 == get_project_items(client, run, "fallback", ClampFirst(a.first), a.after)
         IN  IF run2.pc = "attempt" THEN run2 ELSE Done(run2, Extract(run2.r, 2))
    ELSE Done(run, e)

\* a variant of Resume in which a failed fallback re-raises the failure of the composed operation
ResumeMasksFallback(client, run, a) ==
    IF run.stage = "custom"
    THEN LET e == Extract(run.r, 2)
         IN  IF e.kind = "return" THEN Done(run, e) ELSE AdvancedExcept(client, run, a, e)
    ELSE IF run.stage = "fallback" /\ run.r.kind = "raise" /\ Len(run.xlog) = 2
    THEN Done(run, Extract(run.xlog[1].r, 2))
    ELSE Done(run, Extract(run.r, IF run.stage = "fallback" THEN 2 ELSE Depth(a.op)))

\* the caller of a callee that has ended with run.r goes on: to the end of the client method
Resume(client, run, a) ==
    IF run.stage = "custom"
    THEN LET e == Extract(run.r, 2)
         IN  IF e.kind = "return" THEN Done(run, e) ELSE AdvancedExcept(client, run, a, e)
    ELSE Done(run, Extract(run.r, IF run.stage = "fallback" THEN 2 ELSE Depth(a.op)))

Settle(client, run, a) == IF run.pc = "attempt" THEN run ELSE Resume(client, run, a)


----------------------------------------------------------------------------
(* config.py: Config *)

TransportStdio == <<"s", "t", "d", "i", "o">>
TransportSse == <<"s", "s", "e">>
TransportHttp == <<"h", "t", "t", "p">>

\* valid_transports = ["stdio", "sse", "http"]
valid_transports == {TransportStdio, TransportSse, TransportHttp}

\* Config.__init__; _transport is no attribute of the object until it is assigned
NewConfig == [_initialized |-> FALSE, _transport |-> None]

\* os.getenv("MCP_TRANSPORT", "stdio")
GetenvTransport(e) == IF e.mcp_transport = None THEN TransportStdio ELSE e.mcp_transport.v

\* Config._ensure_initialized: the first call assigns _transport from the environment
_ensure_initialized(c, e) ==
    IF c._initialized THEN c
    ELSE [_initialized |-> TRUE, _transport |-> PyStr(Lower(GetenvTransport(e)))]

\* Config.transport (getter): the object afterwards and the value read
transport(c, e) ==
    LET c1 == _ensure_initialized(c, e)
    IN  [config |-> c1, r |-> Return(c1._transport)]

\* Config.transport (setter)
transport_setter(c, value) == [c EXCEPT !._transport = value]

InvalidTransportMsg(t) ==
    <<"Invalid transport '">> \o t \o <<"'. Must be one of: ['stdio', 'sse', 'http']">>

\* a variant of validate_transport that validates the environment's MCP_TRANSPORT
ValidateTransportOfEnvironment(c, e) ==
    LET c1 == _ensure_initialized(c, e)
        t == Lower(GetenvTransport(e))
    IN  IF t \notin valid_transports
        THEN [config |-> c1, r |-> Raise("ValueError", InvalidTransportMsg(t), None)]
        ELSE [config |-> c1, r |-> Return(None)]

\* Config.validate_transport
validate_transport(c, e) ==
    LET c1 == _ensure_initialized(c, e)
        read == transport(c1, e)
    IN  IF read.r.value.v \notin valid_transports
        THEN [config |-> read.config, r |-> Raise("ValueError", InvalidTransportMsg(read.r.value.v), None)]
        ELSE [config |-> read.config, r |-> Return(None)]

\* Config.github_token (getter): _get_required_env("GITHUB_TOKEN")
github_token(e) ==
    IF e.token THEN Return(PyStr(<<"ghp_token">>))
    ELSE Raise("ValueError", <<"Required environment variable GITHUB_TOKEN is not set">>, None)

----------------------------------------------------------------------------
(* server.py: the filtering helpers *)

\* d.get(key, default) and `key in d` on a dict d
Get(d, key, default) == IF key \in DictKeys(d.v) THEN DictGet(d.v, key) ELSE default
Has(d, key) == key \in DictKeys(d.v)

\* calling .get on None
NoAttributeGet == Raise("AttributeError", <<"'NoneType' object has no attribute 'get'">>, None)

\* a str equal to the text s
IsText(x, s) == x.t = "str" /\ x.v = s

\* a variant of _matches_content_search that forgets .lower() on the title and the body
MatchesContentSearchCaseSensitive(item, query_lower) ==
    LET content == Get(item, "content", None)
    IN  /\ Truthy(content)
        /\ \/ Contains(query_lower, Get(content, "title", PyStr(<<>>)).v)
           \/ Contains(query_lower, Get(content, "body", PyStr(<<>>)).v)

_matches_content_search(item, query_lower) ==
    LET content == Get(item, "content", None)
    IN  /\ Truthy(content)
        /\ \/ Contains(query_lower, Lower(Get(content, "title", PyStr(<<>>)).v))
           \/ Contains(query_lower, Lower(Get(content, "body", PyStr(<<>>)).v))

\* item.get("fieldValues", {}).get("nodes"), a list (empty when absent)
FieldValueNodes(item) ==
    LET nodes == Get(Get(item, "fieldValues", PyDict(<<>>)), "nodes", None)
    IN  IF Truthy(nodes) THEN nodes.v ELSE <<>>

_matches_field_search(item, query_lower) ==
    \E i \in DOMAIN FieldValueNodes(item) :
        LET field_value == FieldValueNodes(item)[i]
            text == Get(field_value, "text", None)
            name == Get(field_value, "name", None)
        IN  \/ Truthy(text) /\ Contains(query_lower, Lower(text.v))
            \/ Truthy(name) /\ Contains(query_lower, Lower(name.v))

\* "state" in filters_dict and content.get("state") != filters_dict["state"]
\* item.get("content", {}) is None when the item's content is null, and None has no .get
_apply_search_filters(item, filters_dict) ==
    IF ~Truthy(filters_dict) THEN Return(PyBool(TRUE))
    ELSE IF Has(filters_dict, "state")
    THEN LET content == Get(item, "content", PyDict(<<>>))
         IN  IF content.t # "dict" THEN NoAttributeGet
             ELSE Return(PyBool(Get(content, "state", None) = Get(filters_dict, "state", None)))
    ELSE Return(PyBool(TRUE))

\* the loop of search_project_items over all_items
\* the loop of search_project_items over all_items: the items kept, or the exception
\* that ends the loop
RECURSIVE SearchItems(_, _, _)
SearchItems(all_items, query, filters_dict) ==
    IF all_items = <<>> THEN Return(PyList(<<>>))
    ELSE LET item == Head(all_items)
             query_lower == Lower(query)
             content_match == _matches_content_search(item, query_lower)
             field_match == ~content_match /\ _matches_field_search(item, query_lower)
             kept == IF content_match \/ field_match
                     THEN _apply_search_filters(item, filters_dict)
                     ELSE Return(PyBool(FALSE))
         IN  IF kept.kind = "raise" THEN kept
             ELSE LET rest == SearchItems(Tail(all_items), query, filters_dict)
                  IN  IF rest.kind = "raise" THEN rest
                      ELSE IF kept.value.v
                      THEN Return(PyList(<<item>> \o rest.value.v))
                      ELSE rest

\* a variant of BelongsToField that takes a value of any field
BelongsToAnyField(field_value, field_id) == TRUE

\* field_info.get("id") == field_id
BelongsToField(field_value, field_id) ==
    IsText(Get(Get(field_value, "field", PyDict(<<>>)), "id", None), field_id)

_check_field_value_match(field_value, target_value) ==
    IF Has(field_value, "text") /\ IsText(Get(field_value, "text", None), target_value) THEN TRUE
    ELSE IF Has(field_value, "name") /\ IsText(Get(field_value, "name", None), target_value) THEN TRUE
    ELSE IF Has(field_value, "names")
            /\ \E i \in DOMAIN Get(field_value, "names", None).v :
                    IsText(Get(field_value, "names", None).v[i], target_value) THEN TRUE
    ELSE IF Has(field_value, "number") /\ Str(Get(field_value, "number", None)) = target_value THEN TRUE
    ELSE Has(field_value, "date") /\ IsText(Get(field_value, "date", None), target_value)

\* the inner loop: the item is appended at the first matching field value, then break
_filter_items_by_field_value(items, field_id, value) ==
    LET Keep(item) ==
            \E i \in DOMAIN FieldValueNodes(item) :
                /\ BelongsToField(FieldValueNodes(item)[i], field_id)
                /\ _check_field_value_match(FieldValueNodes(item)[i], value)
    IN  SelectSeq(items, Keep)

\* a variant of TitleIs that compares the titles without regard to case
TitleIsIgnoringCase(milestone, milestone_name) ==
    LET title == Get(milestone, "title", None)
    IN  title.t = "str" /\ Lower(title.v) = Lower(milestone_name)

\* milestone.get("title") == milestone_name
TitleIs(milestone, milestone_name) == IsText(Get(milestone, "title", None), milestone_name)

\* item.get("content", {}).get("milestone", {}).get("title") == milestone_name
_check_content_milestone(item, milestone_name) ==
    LET content == Get(item, "content", PyDict(<<>>))
    IN  IF content.t # "dict" THEN NoAttributeGet
        ELSE LET milestone == Get(content, "milestone", PyDict(<<>>))
             IN  IF milestone.t # "dict" THEN NoAttributeGet
                 ELSE Return(PyBool(TitleIs(milestone, milestone_name)))

_check_field_milestone(item, milestone_name) ==
    \E i \in DOMAIN FieldValueNodes(item) :
        LET field_value == FieldValueNodes(item)[i]
        IN  /\ Has(field_value, "milestone")
            /\ Truthy(Get(field_value, "milestone", None))
            /\ TitleIs(Get(field_value, "milestone", None), milestone_name)

\* the loop over the items: the list of the matching items, or the exception that ends it
RECURSIVE _filter_items_by_milestone(_, _)
_filter_items_by_milestone(items, milestone_name) ==
    IF items = <<>> THEN Return(PyList(<<>>))
    ELSE LET content_match == _check_content_milestone(Head(items), milestone_name)
         IN  IF content_match.kind = "raise" THEN content_match
             ELSE LET field_match == ~content_match.value.v
                                     /\ _check_field_milestone(Head(items), milestone_name)
                      rest == _filter_items_by_milestone(Tail(items), milestone_name)
                  IN  IF rest.kind = "raise" THEN rest
                      ELSE IF content_match.value.v \/ field_match
                      THEN Return(PyList(<<Head(items)>> \o rest.value.v))
                      ELSE rest

----------------------------------------------------------------------------
(* server.py: the tools *)

\* a variant of get_github_client without `if github_client is None`
GetClientAlwaysConstructs(handle, e) ==
    IF e.token
    THEN [r |-> Return(None), handle |-> NewClient(e.max_retries, e.retry_delay, handle.serial + 1)]
    ELSE [r |-> Raise("ValueError", <<"Required environment variable GITHUB_TOKEN is not set">>, None),
          handle |-> handle]

\* get_github_client(): the handle to use and, when construction fails, the exception
get_github_client(handle, e) ==
    IF handle.built THEN [r |-> Return(None), handle |-> handle]
    ELSE IF e.token
    THEN [r |-> Return(None), handle |-> NewClient(e.max_retries, e.retry_delay, handle.serial + 1)]
    ELSE [r |-> Raise("ValueError", <<"Required environment variable GITHUB_TOKEN is not set">>, None),
          handle |-> handle]

\* the JSON texts the callers pass
JsonObjN == <<"{", "\"", "n", "\"", ":", " ", "1", "}">>
JsonStateOpen == <<"{", "\"", "state", "\"", ":", " ", "\"", "OPEN", "\"", "}">>
JsonBad == <<"{", "n">>

\* a variant of JsonLoads that reads a malformed text as the empty object
JsonLoadsLenient(text) ==
    IF text = JsonObjN THEN Return(PyDict(<<[k |-> "n", val |-> PyInt(1)]>>))
    ELSE IF text = JsonStateOpen THEN Return(PyDict(<<[k |-> "state", val |-> PyStr(<<"OPEN">>)]>>))
    ELSE Return(PyDict(<<>>))

\* json.loads on the texts above
JsonLoads(text) ==
    IF text = JsonObjN THEN Return(PyDict(<<[k |-> "n", val |-> PyInt(1)]>>))
    ELSE IF text = JsonStateOpen THEN Return(PyDict(<<[k |-> "state", val |-> PyStr(<<"OPEN">>)]>>))
    ELSE Raise("JSONDecodeError", <<"Expecting property name enclosed in double quotes">>, None)

\* the tools with a trailing `except Exception`
HasGenericExcept(op) ==
    op \in {"get_project_items_advanced", "list_accessible_projects", "execute_custom_project_query",
            "search_project_items", "get_items_by_field_value", "get_items_by_milestone"}

\* a variant of ToolWrap in which the trailing `except Exception` comes first
ToolWrapGenericFirst(op, r) ==
    IF r.kind # "raise" THEN r
    ELSE IF HasGenericExcept(op)
    THEN Raise("Exception", <<"Unexpected error: ">> \o r.msg, None)
    ELSE IF r.exc \in {"GitHubAPIError", "RateLimitError"}
    THEN Raise("Exception", <<"GitHub API error: ">> \o r.msg, None)
    ELSE r

\* the except clauses of a tool
ToolWrap(op, r) ==
    IF r.kind # "raise" THEN r
    ELSE IF r.exc \in {"GitHubAPIError", "RateLimitError"}
    THEN Raise("Exception", <<"GitHub API error: ">> \o r.msg, None)
    ELSE IF HasGenericExcept(op)
    THEN Raise("Exception", <<"Unexpected error: ">> \o r.msg, None)
    ELSE r

\* whether the tool's own parsing of its JSON argument fails
JsonFails(arg) == Truthy(arg) /\ JsonLoads(arg.v).kind = "raise"

\* the parsed JSON argument, or the default when the argument is empty
JsonOr(arg, default) == IF Truthy(arg) THEN JsonLoads(arg.v).value ELSE default

\* the tools that fetch one page and filter it
IsFilterTool(op) == op \in {"search_project_items", "get_items_by_field_value", "get_items_by_milestone"}

SearchProjectItemsDoc == <<"query SearchProjectItems">>
GetItemsByFieldValueDoc == <<"query GetItemsByFieldValue">>
GetItemsByMilestoneDoc == <<"query GetItemsByMilestone">>

\* variables = {"id": project_id, "first": 25, "after": None}
FilterVariables == ("id" :> ProjectId) @@ ("first" :> PyInt(25)) @@ ("after" :> None)

\* a variant of FilterResult that counts the items of the page
FilterResultCountsPage(items_data, filtered_items) ==
    PyDict(<<Entry("nodes", PyList(filtered_items)),
             Entry("pageInfo", Get(items_data, "pageInfo", None)),
             Entry("totalMatches", PyInt(Len(Get(items_data, "nodes", None).v)))>>)

\* {"nodes": filtered_items, "pageInfo": items_data["pageInfo"], "totalMatches": len(filtered_items)}
FilterResult(items_data, filtered_items) ==
    PyDict(<<Entry("nodes", PyList(filtered_items)),
             Entry("pageInfo", Get(items_data, "pageInfo", None)),
             Entry("totalMatches", PyInt(Len(filtered_items)))>>)

\* the filtered items of the page, or the exception of the filtering
FilterItems(a, all_items) ==
    CASE a.op = "search_project_items" ->
            SearchItems(all_items, a.query, JsonOr(a.filters, PyDict(<<>>)))
      [] a.op = "get_items_by_field_value" ->
            Return(PyList(_filter_items_by_field_value(all_items, a.field_id, a.value.v)))
      [] a.op = "get_items_by_milestone" -> _filter_items_by_milestone(all_items, a.milestone_name)

\* a variant of FilterOutcome that answers a null node with an empty result
FilterOutcomeEmptyOnNullNode(a, r, o) ==
    IF r.kind = "raise" THEN r
    ELSE IF r.value.t = "NoneType" THEN NoAttributeGet
    ELSE IF ~r.value.v.full
    THEN Return(PyDict(<<Entry("nodes", PyList(<<>>)), Entry("pageInfo", None),
                         Entry("totalMatches", PyInt(0))>>))
    ELSE LET items_data == o.items_data
             filtered == FilterItems(a, Get(items_data, "nodes", None).v)
         IN  IF filtered.kind = "raise" THEN filtered
             ELSE Return(FilterResult(items_data, filtered.value.v))

\* a filtering tool after client._execute_with_retry has ended with r; o is the remote's last answer
FilterOutcome(a, r, o) ==
    IF r.kind = "raise" THEN r
    ELSE IF r.value.t = "NoneType" THEN NoAttributeGet
    ELSE IF ~r.value.v.full THEN Raise("Exception", <<"Project not found">>, None)
    ELSE LET items_data == o.items_data
             filtered == FilterItems(a, Get(items_data, "nodes", None).v)
         IN  IF filtered.kind = "raise" THEN filtered
             ELSE Return(FilterResult(items_data, filtered.value.v))

\* the remote's last answer to the last activation of the run (none when no request was sent)
LastAnswer(run) ==
    LET act == run.xlog[Len(run.xlog)]
    IN  IF act.outcomes = <<>> THEN RemoteOk(FALSE) ELSE act.outcomes[Len(act.outcomes)]

\* the arguments a tool hands to the client method it delegates to
ToolArgs(a) ==
    CASE a.op = "get_project_items" -> [a EXCEPT !.first = ToolClampFirst(a.first)]
      [] a.op = "get_project_items_advanced" ->
            [a EXCEPT !.first = ToolClampFirst(a.first),
                      !.custom_variables = JsonOr(a.custom_variables, None)]
      [] a.op = "execute_custom_project_query" ->
            [a EXCEPT !.op = "execute_custom_query",
                      !.variables = JsonOr(a.variables, PyDict(<<>>))]
      [] OTHER -> a

\* the body of a tool after get_github_client(), up to the first wait for the remote
ToolBody(client, a) ==
    LET c == ToolArgs(a)
    IN  CASE a.op = "list_accessible_projects" ->
                EnterRetry(client, Run0, "main", GetViewerProjectsDoc,
                           WithAfter("first" :> PyInt(ToolClampFirst(a.first)), a.after))
          [] a.op = "get_organization_projects" -> get_organization_projects(client, Run0, c)
          [] a.op = "get_user_projects" -> get_user_projects(client, Run0, c)
          [] a.op = "get_project_items" -> get_project_items(client, Run0, "main", c.first, c.after)
          [] a.op = "get_project_items_advanced" ->
                IF JsonFails(a.custom_variables)
                THEN [Run0 EXCEPT !.pc = "raised",
                        !.r = Raise("Exception", <<"Invalid JSON in custom_variables parameter">>, None)]
                ELSE get_project_items_advanced(client, Run0, c)
          [] a.op = "execute_custom_project_query" ->
                IF JsonFails(a.variables)
                THEN [Run0 EXCEPT !.pc = "raised",
                        !.r = Raise("Exception", <<"Invalid JSON in variables parameter">>, None)]
                ELSE execute_custom_query(client, Run0, "main", c.query, Update(EmptyDict, c.variables.v))
          [] a.op = "update_item_field_value" -> update_item_field_value(client, Run0, c)
          [] a.op = "get_project" -> get_project(client, Run0, c)
          [] a.op = "get_project_fields" -> get_project_fields(client, Run0, c)
          [] a.op = "add_item_to_project" -> add_item_to_project(client, Run0, c)
          [] a.op = "remove_item_from_project" -> remove_item_from_project(client, Run0, c)
          [] a.op = "archive_item" -> archive_item(client, Run0, c)
          [] a.op = "create_project" -> create_project(client, Run0, c)
          [] a.op = "update_project" -> update_project(client, Run0, c)
          [] a.op = "delete_project" -> delete_project(client, Run0, c)
          [] a.op = "search_project_items" ->
                IF JsonFails(a.filters)
                THEN [Run0 EXCEPT !.pc = "raised",
                        !.r = Raise("Exception", <<"Invalid JSON in filters parameter">>, None)]
                ELSE EnterRetry(client, Run0, "main", SearchProjectItemsDoc, FilterVariables)
          [] a.op = "get_items_by_field_value" ->
                EnterRetry(client, Run0, "main", GetItemsByFieldValueDoc, FilterVariables)
          [] a.op = "get_items_by_milestone" ->
                EnterRetry(client, Run0, "main", GetItemsByMilestoneDoc, FilterVariables)

\* the body of a client method called directly
ClientBody(client, a) ==
    CASE a.op = "get_organization_projects" -> get_organization_projects(client, Run0, a)
      [] a.op = "get_user_projects" -> get_user_projects(client, Run0, a)
      [] a.op = "get_project_items" -> get_project_items(client, Run0, "main", a.first, a.after)
      [] a.op = "get_project_items_advanced" -> get_project_items_advanced(client, Run0, a)
      [] a.op = "execute_custom_query" ->
            execute_custom_query(client, Run0, "main", a.query, Update(EmptyDict, a.variables.v))
      [] a.op = "update_item_field_value" -> update_item_field_value(client, Run0, a)

\* a raise in the tool itself (parsing) ends the tool; a raise out of a client method goes to Resume
ToolSettle(client, run, a) ==
    IF run.pc = "raised" /\ run.calls = <<>> THEN Done(run, run.r)
    ELSE IF IsFilterTool(a.op)
    THEN IF run.pc = "attempt" THEN run ELSE Done(run, FilterOutcome(a, run.r, LastAnswer(run)))
    ELSE Settle(client, run, ToolArgs(a))

----------------------------------------------------------------------------
(* Inputs *)

FirstValues == {0, 1, 25, 26, 101}
AdvancedFirstValues == {0, 26, 101}
AfterValues == {None, PyStr(<<"Y3Vyc29yOnYyOpHOAA">>)}
RetryDelays == {1, 60}

QueryTexts ==
    { <<"{", "i", "d", "}">>,
      <<"M", "u", "t", "a", "t", "i", "o", "n", "{", "x", "}">>,
      <<"{", "_", "_", "S", "c", "h", "e", "m", "a", "}">>,
      <<"{", "_", "_", "t", "y", "p", "e", "n", "a", "m", "e", "}">>,
      <<"S", "U", "B", "S", "C", "R", "I", "P", "T", "I", "O", "N">>,
      <<"m", "u", "t", "a", "t", " ", "i", "o", "n">>,
      <<"_", "_", "t", "y", "p", "e", " ", "m", "u", "t", "a", "t", "i", "o", "n">> }

FieldFragments == {None, PyStr(<<"i", "d">>), PyStr(<<"_", "_", "T", "y", "p", "e", "n", "a", "m", "e">>)}
FilterFragments == {None, PyStr(<<"x", ":", "1">>), PyStr(<<"M", "u", "t", "a", "t", "i", "o", "n">>)}
VariableDicts ==
    { None, PyDict(<<[k |-> "n", val |-> PyInt(1)]>>),
      PyDict(<<[k |-> "label", val |-> PyStr(<<"b", "u", "g">>)], [k |-> "flag", val |-> PyBool(TRUE)]>>) }
QueryVariableDicts == {PyDict(<<>>), PyDict(<<[k |-> "n", val |-> PyInt(1)]>>)}
JsonArguments == {None, PyStr(JsonObjN), PyStr(JsonBad)}

FieldValues ==
    { PyStr(<<"h", "i">>), PyInt(3), PyFloat(2), PyBool(TRUE), None, PyList(<<PyInt(1)>>),
      PyDict(<<[k |-> "singleSelectOptionId", val |-> PyStr(<<"o", "1">>)]>>) }

\* opaque pieces of the items: identifiers, states, dates, cursors
Opaque(chunk) == PyStr(<<chunk>>)

\* field { id name }
FieldRef(id, name) == Entry("field", PyDict(<<Entry("id", Opaque(id)), Entry("name", Opaque(name))>>))
MilestoneObj(title) == PyDict(<<Entry("title", PyStr(title))>>)
FieldValuesOf(nodes) == Entry("fieldValues", PyDict(<<Entry("nodes", PyList(nodes))>>))

TextLogin == <<"l", "o", "g", "i", "n">>
TextLoginUpper == <<"L", "O", "G", "I", "N">>
TextLogout == <<"l", "o", "g", "o", "u", "t">>
TextBackend == <<"b", "a", "c", "k", "e", "n", "d">>
TextProgress == <<"p", "r", "o", "g", "r", "e", "s", "s">>
TextMVP == <<"M", "V", "P">>
TextMvpLower == <<"m", "v", "p">>

\* an issue "Refactor login flow" in milestone MVP, with a text and a single-select value
ItemIssue ==
    PyDict(<<Entry("id", Opaque("PVTI_1")),
             Entry("content", PyDict(<<Entry("id", Opaque("I_1")),
                                       Entry("title", PyStr(<<"R", "e", "f", "a", "c", "t", "o", "r", " ", "l", "o", "g", "i", "n", " ", "f", "l", "o", "w">>)),
                                       Entry("body", PyStr(<<"C", "l", "e", "a", "n", "u", "p">>)),
                                       Entry("issueState", Opaque("OPEN")),
                                       Entry("milestone", MilestoneObj(TextMVP))>>)),
             FieldValuesOf(<<PyDict(<<Entry("text", PyStr(TextBackend)), FieldRef("PVTF_1", "Area")>>),
                             PyDict(<<Entry("name", PyStr(<<"I", "n", " ", "P", "r", "o", "g", "r", "e", "s", "s">>)), FieldRef("PVTF_2", "Status")>>)>>)>>)

\* a draft (no milestone of its own) whose body mentions "Login", in milestone MVP by a field value
ItemDraft ==
    PyDict(<<Entry("id", Opaque("PVTI_2")),
             Entry("content", PyDict(<<Entry("id", Opaque("DI_2")),
                                       Entry("title", PyStr(<<"D", "r", "a", "f", "t", " ", "n", "o", "t", "e", "s">>)),
                                       Entry("body", PyStr(<<"s", "e", "e", " ", "L", "o", "g", "i", "n", " ", "d", "o", "c", "s">>))>>)),
             FieldValuesOf(<<PyDict(<<>>),
                             PyDict(<<Entry("number", PyFloat(3)), FieldRef("PVTF_3", "Points")>>),
                             PyDict(<<Entry("milestone", MilestoneObj(TextMVP)), FieldRef("PVTF_5", "Milestone")>>)>>)>>)

\* a pull request in milestone "mvp", with the text "backend" in another field than the issue's
ItemPull ==
    PyDict(<<Entry("id", Opaque("PVTI_3")),
             Entry("content", PyDict(<<Entry("id", Opaque("PR_3")),
                                       Entry("title", PyStr(<<"F", "i", "x", " ", "t", "y", "p", "o">>)),
                                       Entry("body", PyStr(<<>>)),
                                       Entry("prState", Opaque("MERGED")),
                                       Entry("milestone", MilestoneObj(TextMvpLower))>>)),
             FieldValuesOf(<<PyDict(<<Entry("text", PyStr(TextMVP)), FieldRef("PVTF_1", "Area")>>),
                             PyDict(<<Entry("text", PyStr(TextBackend)), FieldRef("PVTF_6", "Team")>>),
                             PyDict(<<Entry("date", Opaque("2024-05-01")), FieldRef("PVTF_4", "Due")>>),
                             PyDict(<<Entry("milestone", None), FieldRef("PVTF_5", "Milestone")>>)>>)>>)

\* an issue without milestone (milestone: null) and without field values
ItemNoMilestone ==
    PyDict(<<Entry("id", Opaque("PVTI_4")),
             Entry("content", PyDict(<<Entry("id", Opaque("I_4")),
                                       Entry("title", PyStr(<<"A", "d", "d", " ", "l", "o", "g", "o", "u", "t">>)),
                                       Entry("body", PyStr(<<"x">>)),
                                       Entry("issueState", Opaque("CLOSED")),
                                       Entry("milestone", None)>>)),
             FieldValuesOf(<<>>)>>)

\* an item whose content the token may not read (content: null), with field values
ItemRedacted ==
    PyDict(<<Entry("id", Opaque("PVTI_5")),
             Entry("content", None),
             FieldValuesOf(<<PyDict(<<Entry("name", PyStr(<<"L", "o", "g", "i", "n", " ", "b", "u", "g">>)), FieldRef("PVTF_2", "Status")>>),
                             PyDict(<<Entry("names", PyList(<<PyStr(<<"u", "i">>), PyStr(TextBackend)>>)),
                                      FieldRef("PVTF_1", "Area")>>),
                             PyDict(<<Entry("milestone", MilestoneObj(TextMVP)), FieldRef("PVTF_5", "Milestone")>>)>>)>>)

PageInfo(hasNextPage, endCursor) ==
    PyDict(<<Entry("hasNextPage", PyBool(hasNextPage)), Entry("endCursor", endCursor)>>)
\* result["node"]["items"]
ItemsData(pageInfo, nodes) == PyDict(<<Entry("pageInfo", pageInfo), Entry("nodes", PyList(nodes))>>)

\* the pages the remote answers a filtering tool with
ItemPages ==
    { ItemsData(PageInfo(TRUE, Opaque("Y3Vyc29yOnYyOpHOAA")), <<ItemIssue, ItemDraft, ItemPull>>),
      ItemsData(PageInfo(FALSE, Opaque("Y3Vyc29yOnYyOpHOAB")), <<ItemPull, ItemIssue>>),
      ItemsData(PageInfo(FALSE, Opaque("Y3Vyc29yOnYyOpHOAC")), <<ItemNoMilestone, ItemIssue>>),
      ItemsData(PageInfo(FALSE, Opaque("Y3Vyc29yOnYyOpHOAD")), <<ItemRedacted, ItemDraft>>),
      ItemsData(PageInfo(FALSE, None), <<>>) }

\* the values MCP_TRANSPORT may have in the environment
TransportSettings ==
    { None, PyStr(TransportStdio), PyStr(<<"S", "S", "E">>), PyStr(TransportHttp),
      PyStr(<<"i", "n", "v", "a", "l", "i", "d", "_", "t", "r", "a", "n", "s", "p", "o", "r", "t">>) }

\* the values assigned to config.transport
TransportValues ==
    { PyStr(TransportSse), PyStr(TransportStdio), PyStr(<<"i", "n", "v", "a", "l", "i", "d">>),
      PyStr(<<"H", "T", "T", "P">>) }

\* the filters argument of search_project_items
FilterArguments == JsonArguments \cup {PyStr(JsonStateOpen)}

SearchQueries == {TextLogin, TextLoginUpper, TextLogout, TextBackend, TextProgress, <<>>}
\* (field_id, value) of get_items_by_field_value
FieldQueries ==
    { <<<<"PVTF_1">>, TextBackend>>, <<<<"PVTF_1">>, TextMVP>>, <<<<"PVTF_2">>, TextBackend>>,
      <<<<"PVTF_3">>, <<"3", ".", "0">>>>, <<<<"PVTF_3">>, <<"3">>>>, <<<<"PVTF_4">>, <<"2024-05-01">>>> }
\* optional text and boolean arguments of create_project and update_project
ProjectTitle == PyStr(<<"Roadmap">>)
OptionalTexts == { None, PyStr(<<>>), PyStr(<<"Q3">>) }
OptionalFlags == { None, PyBool(FALSE), PyBool(TRUE) }

MilestoneNames == {TextMVP, TextMvpLower, TextLogin}


\* what the remote can answer to the request of an operation
Outcomes(op) ==
    IF IsFilterTool(op)
    THEN (RemoteOutcomes \ {RemoteOk(TRUE)}) \cup {RemotePage(items_data) : items_data \in ItemPages}
    ELSE RemoteOutcomes

----------------------------------------------------------------------------
(* The state machine *)

NoResult == [kind |-> "none", status |-> None, value |-> None, exc |-> "", msg |-> <<>>]

\* the state of a process started in one of the environments envs
InitIn(envs) ==
    /\ env \in envs
    /\ github_client = NoClient
    /\ pc = "start"
    /\ inv = [a |-> Args(""), layer |-> "none", constructed |-> FALSE]
    /\ stage = "main"
    /\ xlog = <<>>
    /\ calls = <<>>
    /\ result = NoResult
    /\ config = NewConfig
    /\ cursor = None

Init ==
    InitIn([max_retries : (0 - 1)..MaxRetries, retry_delay : RetryDelays, mcp_transport : {None},
            token : BOOLEAN])

\* the run becomes the state; a finished run leaves its outcome in result
Commit(run, layer, op) ==
    /\ pc' = run.pc
    /\ stage' = run.stage
    /\ xlog' = run.xlog
    /\ calls' = run.calls
    /\ result' = IF run.pc # "done" THEN NoResult
                 ELSE IF layer = "tool" THEN ToolWrap(op, run.r) ELSE run.r

\* main(): mcp.run() starts serving, or raises and the process exits with status 1;
\* nothing of the configuration is read
main ==
    /\ pc = "start"
    /\ \E served \in BOOLEAN : pc' = IF served THEN "idle" ELSE "exited"
    /\ UNCHANGED <<env, github_client, inv, stage, xlog, calls, result, config, cursor>>

\* a tool is invoked with arguments a
ToolInvoke(a) ==
    /\ pc = "idle"
    /\ LET got == get_github_client(github_client, env)
       IN  /\ inv' = [a |-> a, layer |-> "tool", constructed |-> got.handle # github_client]
           /\ github_client' = got.handle
           /\ IF got.r.kind = "raise"
              THEN Commit(Done(Run0, got.r), "tool", a.op)
              ELSE Commit(ToolSettle(got.handle, ToolBody(got.handle, a), a), "tool", a.op)
    /\ config' = IF github_client.built THEN config ELSE _ensure_initialized(config, env)
    /\ cursor' = None
    /\ UNCHANGED env

\* a method of the process's client object is called directly with arguments a
ClientInvoke(a) ==
    /\ pc = "idle"
    /\ github_client.built
    /\ inv' = [a |-> a, layer |-> "client", constructed |-> FALSE]
    /\ Commit(Settle(github_client, ClientBody(github_client, a), a), "client", a.op)
    /\ cursor' = None
    /\ UNCHANGED <<env, github_client, config>>

Tool_list_accessible_projects ==
    \E first \in FirstValues, after \in AfterValues :
        ToolInvoke([Args("list_accessible_projects") EXCEPT !.first = first, !.after = after])

Tool_get_organization_projects ==
    \E first \in FirstValues, after \in AfterValues :
        ToolInvoke([Args("get_organization_projects") EXCEPT !.first = first, !.after = after])

Tool_get_user_projects ==
    \E first \in FirstValues, after \in AfterValues :
        ToolInvoke([Args("get_user_projects") EXCEPT !.first = first, !.after = after])

Tool_get_project_items ==
    \E first \in FirstValues, after \in AfterValues :
        ToolInvoke([Args("get_project_items") EXCEPT !.first = first, !.after = after])

Tool_get_project_items_advanced ==
    \E first \in AdvancedFirstValues, after \in AfterValues, cf \in FieldFragments,
       cx \in FilterFragments, cv \in JsonArguments :
        ToolInvoke([Args("get_project_items_advanced") EXCEPT
                        !.first = first, !.after = after, !.custom_fields = cf,
                        !.custom_filters = cx, !.custom_variables = cv])

Tool_execute_custom_project_query ==
    \E q \in QueryTexts, v \in JsonArguments :
        ToolInvoke([Args("execute_custom_project_query") EXCEPT !.query = q, !.variables = v])

Tool_update_item_field_value ==
    \E v \in FieldValues :
        ToolInvoke([Args("update_item_field_value") EXCEPT !.value = v])

Tool_search_project_items ==
    \E q \in SearchQueries, f \in FilterArguments :
        ToolInvoke([Args("search_project_items") EXCEPT !.query = q, !.filters = f])

Tool_get_items_by_field_value ==
    \E fq \in FieldQueries :
        ToolInvoke([Args("get_items_by_field_value") EXCEPT !.field_id = fq[1], !.value = PyStr(fq[2])])

Tool_get_items_by_milestone ==
    \E name \in MilestoneNames :
        ToolInvoke([Args("get_items_by_milestone") EXCEPT !.milestone_name = name])

Tool_get_project == ToolInvoke(Args("get_project"))

Tool_get_project_fields == ToolInvoke(Args("get_project_fields"))

Tool_add_item_to_project == ToolInvoke(Args("add_item_to_project"))

Tool_remove_item_from_project == ToolInvoke(Args("remove_item_from_project"))

Tool_archive_item == ToolInvoke(Args("archive_item"))

Tool_create_project ==
    \E d \in OptionalTexts :
        ToolInvoke([Args("create_project") EXCEPT !.title = ProjectTitle, !.description = d])

Tool_update_project ==
    \E t \in OptionalTexts, d \in OptionalTexts, p \in OptionalFlags :
        ToolInvoke([Args("update_project") EXCEPT !.title = t, !.description = d, !.public = p])

Tool_delete_project == ToolInvoke(Args("delete_project"))

Call_get_organization_projects ==
    \E first \in FirstValues, after \in AfterValues :
        ClientInvoke([Args("get_organization_projects") EXCEPT !.first = first, !.after = after])

Call_get_user_projects ==
    \E first \in FirstValues, after \in AfterValues :
        ClientInvoke([Args("get_user_projects") EXCEPT !.first = first, !.after = after])

Call_get_project_items ==
    \E first \in FirstValues, after \in AfterValues :
        ClientInvoke([Args("get_project_items") EXCEPT !.first = first, !.after = after])

Call_get_project_items_advanced ==
    \E first \in AdvancedFirstValues, after \in AfterValues, cf \in FieldFragments,
       cx \in FilterFragments, cv \in VariableDicts :
        ClientInvoke([Args("get_project_items_advanced") EXCEPT
                        !.first = first, !.after = after, !.custom_fields = cf,
                        !.custom_filters = cx, !.custom_variables = cv])

Call_execute_custom_query ==
    \E q \in QueryTexts, v \in QueryVariableDicts :
        ClientInvoke([Args("execute_custom_query") EXCEPT !.query = q, !.variables = v])

Call_update_item_field_value ==
    \E v \in FieldValues :
        ClientInvoke([Args("update_item_field_value") EXCEPT !.value = v])

\* one iteration of the loop of _execute_with_retry: the remote answers o
Attempt ==
    /\ pc = "attempt"
    /\ \E o \in Outcomes(inv.a.op) :
        LET act == RetryStep(github_client, xlog[Len(xlog)], o)
            run == [pc |-> IF act.state = "running" THEN "attempt" ELSE act.state,
                    stage |-> stage, xlog |-> [xlog EXCEPT ![Len(xlog)] = act],
                    calls |-> calls, r |-> act.r]
        IN  Commit(IF inv.layer = "tool" THEN ToolSettle(github_client, run, inv.a)
                   ELSE Settle(github_client, run, inv.a),
                   inv.layer, inv.a.op)
    /\ UNCHANGED <<env, github_client, inv, config, cursor>>

\* what the caller of a filtering tool keeps of the outcome r to ask for the next page:
\* pageInfo.endCursor when pageInfo.hasNextPage is true
EndCursorFor(op, r) ==
    IF IsFilterTool(op) /\ r.kind = "return"
    THEN LET pageInfo == Get(r.value, "pageInfo", None)
         IN  IF Get(pageInfo, "hasNextPage", None) = PyBool(TRUE)
             THEN Get(pageInfo, "endCursor", None)
             ELSE None
    ELSE None

\* the outcome goes to the caller and the invocation's frame is gone
Respond ==
    /\ pc = "done"
    /\ pc' = "idle"
    /\ inv' = [a |-> Args(""), layer |-> "none", constructed |-> FALSE]
    /\ stage' = "main"
    /\ xlog' = <<>>
    /\ calls' = <<>>
    /\ result' = NoResult
    /\ cursor' = EndCursorFor(inv.a.op, result)
    /\ UNCHANGED <<env, github_client, config>>

\* an access to the Config object, by the process or by code that holds the object
ConfigAccess(op, value, out) ==
    /\ pc \in {"start", "idle"}
    /\ inv' = [a |-> [Args(op) EXCEPT !.value = value], layer |-> "config", constructed |-> FALSE]
    /\ config' = out.config
    /\ result' = out.r
    /\ UNCHANGED <<env, github_client, pc, stage, xlog, calls, cursor>>

Config_transport == ConfigAccess("transport", None, transport(config, env))

Config_transport_setter ==
    \E value \in TransportValues :
        ConfigAccess("transport.setter", value,
                     [config |-> transport_setter(config, value), r |-> Return(None)])

Config_validate_transport == ConfigAccess("validate_transport", None, validate_transport(config, env))

Config_github_token == ConfigAccess("github_token", None, [config |-> config, r |-> github_token(env)])

Next ==
    \/ main
    \/ Tool_list_accessible_projects
    \/ Tool_get_organization_projects
    \/ Tool_get_user_projects
    \/ Tool_get_project_items
    \/ Tool_get_project_items_advanced
    \/ Tool_execute_custom_project_query
    \/ Tool_update_item_field_value
    \/ Tool_search_project_items
    \/ Tool_get_items_by_field_value
    \/ Tool_get_items_by_milestone
    \/ Tool_get_project
    \/ Tool_get_project_fields
    \/ Tool_add_item_to_project
    \/ Tool_remove_item_from_project
    \/ Tool_archive_item
    \/ Tool_create_project
    \/ Tool_update_project
    \/ Tool_delete_project
    \/ Call_get_organization_projects
    \/ Call_get_user_projects
    \/ Call_get_project_items
    \/ Call_get_project_items_advanced
    \/ Call_execute_custom_query
    \/ Call_update_item_field_value
    \/ Attempt
    \/ Respond

Spec == Init /\ [][Next]_vars

\* the process and its Config object under every setting of MCP_TRANSPORT
ConfigInit ==
    InitIn([max_retries : {0}, retry_delay : {1}, mcp_transport : TransportSettings,
            token : BOOLEAN])

ConfigNext ==
    \/ main
    \/ Config_transport
    \/ Config_transport_setter
    \/ Config_validate_transport
    \/ Config_github_token
    \/ Tool_get_project
    \/ Attempt
    \/ Respond

ConfigSpec == ConfigInit /\ [][ConfigNext]_vars


----------------------------------------------------------------------------
(* Vocabulary of the properties *)

\* c and d are the same letter, whatever their case
SameLetter(c, d) ==
    c = d \/ \E i \in DOMAIN UpperChars : {c, d} = {UpperChars[i], LowerChars[i]}

\* text contains needle, case-insensitively
HasCI(needle, text) ==
    \E off \in 0..(Len(text) - Len(needle)) :
        \A j \in 1..Len(needle) : SameLetter(text[off + j], needle[j])

ForbiddenKeywords == {KwMutation, KwSubscription, KwSchema, KwType}
Forbidden(text) == \E kw \in ForbiddenKeywords : HasCI(kw, text)
ForbiddenFragment(x) == x.t = "str" /\ Forbidden(x.v)

RateLimited(o) == o.kind = "err" /\ HasCI(RateLimitText, o.text)
OtherFailure(o) == o.kind = "err" /\ ~HasCI(RateLimitText, o.text)

Op == inv.a.op
IsTool == inv.layer = "tool"
IsClient == inv.layer = "client"
Count(seq, x) == Cardinality({i \in DOMAIN seq : seq[i] = x})
SentFirst(act) == act.variables["first"].v
\* the activations that have sent at least one request
Sending == {i \in DOMAIN xlog : xlog[i].outcomes # <<>>}

----------------------------------------------------------------------------
(* Properties *)

\* C1: with max_retries = N >= 0, an activation of _execute_with_retry whose every attempt
\* fails with a rate-limit text makes exactly N + 1 attempts, sleeps exactly N times for
\* retry_delay seconds (after each attempt but the last) and raises RateLimitError.
C1_RateLimitExhaustion ==
    \A i \in DOMAIN xlog :
        LET act == xlog[i]
            N == github_client.max_retries
        IN  (N >= 0 /\ \A j \in DOMAIN act.outcomes : RateLimited(act.outcomes[j]))
            => /\ act.sleeps = [j \in 1..Len(act.sleeps) |-> github_client.retry_delay]
               /\ IF act.state = "running"
                  THEN Len(act.outcomes) <= N /\ Len(act.sleeps) = Len(act.outcomes)
                  ELSE /\ Len(act.outcomes) = N + 1
                       /\ Len(act.sleeps) = N
                       /\ act.state = "raised"
                       /\ act.r.exc = "RateLimitError"

C1_Witness ==
    /\ pc = "done"
    /\ github_client.max_retries >= 2
    /\ xlog # <<>>
    /\ \A j \in DOMAIN xlog[1].outcomes : RateLimited(xlog[1].outcomes[j])
    /\ Len(xlog[1].outcomes) = github_client.max_retries + 1
    /\ Len(xlog[1].sleeps) = github_client.max_retries
    /\ xlog[1].r.exc = "RateLimitError"

\* C2: a failure whose text does not contain "rate limit" ends the activation at once
\* with a GitHubAPIError (not a RateLimitError) carrying the remote text (and the status
\* code when the exception has a response): it is the last attempt, and the only sleeps
\* are those after the earlier rate-limit failures; on the first attempt, one attempt
\* and no sleep.
C2_OtherFailureEndsCall ==
    \A i \in DOMAIN xlog :
        LET act == xlog[i]
        IN  \A j \in DOMAIN act.outcomes :
                OtherFailure(act.outcomes[j])
                => /\ j = Len(act.outcomes)
                   /\ Len(act.sleeps) = j - 1
                   /\ \A k \in 1..(j - 1) : RateLimited(act.outcomes[k])
                   /\ act.state = "raised"
                   /\ act.r.exc = "GitHubAPIError"
                   /\ act.r.msg = act.outcomes[j].text
                   /\ act.r.status = IF act.outcomes[j].response THEN act.outcomes[j].status ELSE None

C2_Witness ==
    /\ pc = "done"
    /\ Len(xlog) = 1
    /\ Len(xlog[1].outcomes) = 2
    /\ RateLimited(xlog[1].outcomes[1])
    /\ OtherFailure(xlog[1].outcomes[2])
    /\ xlog[1].r.exc = "GitHubAPIError"
    /\ Len(xlog[1].sleeps) = 1

\* C3: a query text that contains, in any case, mutation, subscription, __schema or
\* __type makes execute_custom_query fail with a ValueError naming a forbidden keyword
\* of the text, and the tool execute_custom_project_query fail (with that message,
\* wrapped, whenever it has delegated to execute_custom_query); no request is sent
\* and _execute_with_retry is never entered with such a text.
C3_ForbiddenQueryRejected ==
    (Op \in {"execute_custom_query", "execute_custom_project_query"} /\ Forbidden(inv.a.query))
    => /\ pc = "done"
       /\ xlog = <<>>
       /\ Count(calls, "_execute_with_retry") = 0
       /\ result.kind = "raise"
       /\ IsClient =>
            /\ result.exc = "ValueError"
            /\ \E kw \in ForbiddenKeywords :
                /\ HasCI(kw, inv.a.query)
                /\ result.msg = <<"Query contains forbidden keyword: ">> \o kw
       /\ (IsTool /\ Count(calls, "execute_custom_query") = 1) =>
            \E kw \in ForbiddenKeywords :
                /\ HasCI(kw, inv.a.query)
                /\ result.msg = <<"Unexpected error: ", "Query contains forbidden keyword: ">> \o kw

C3_Witness ==
    /\ IsTool
    /\ Op = "execute_custom_project_query"
    /\ inv.a.query = <<"M", "u", "t", "a", "t", "i", "o", "n", "{", "x", "}">>
    /\ pc = "done"
    /\ xlog = <<>>
    /\ result.msg = <<"Unexpected error: ", "Query contains forbidden keyword: ">> \o KwMutation

\* C4: the client methods get_organization_projects, get_user_projects,
\* get_project_items and get_project_items_advanced send 100 when first > 100,
\* 1 when first < 1 and first itself otherwise, in every request they make.
C4_ClientClampsFirst ==
    (IsClient /\ Op \in {"get_organization_projects", "get_user_projects",
                         "get_project_items", "get_project_items_advanced"})
    => \A i \in DOMAIN xlog :
            SentFirst(xlog[i]) = IF inv.a.first > 100 THEN 100
                                 ELSE IF inv.a.first < 1 THEN 1
                                 ELSE inv.a.first

C4_Witness ==
    /\ IsClient
    /\ Op = "get_project_items_advanced"
    /\ inv.a.first = 101
    /\ Sending = {1, 2}
    /\ SentFirst(xlog[1]) = 100
    /\ SentFirst(xlog[2]) = 100


ListOperations ==
    {"get_organization_projects", "get_user_projects", "get_project_items",
     "get_project_items_advanced", "list_accessible_projects"}

\* C5: whatever `first` a list-returning tool is given, no request it sends asks for
\* more than 25 items, the maximum its description states.
C5_ToolPageSizeAtMost25 ==
    (IsTool /\ Op \in ListOperations) => \A i \in Sending : SentFirst(xlog[i]) <= 25

\* C6: a list-returning operation (the tool list_accessible_projects included) that is
\* given a page size below 1 sends a page size of exactly 1.
C6_FloorOfOne ==
    (Op \in ListOperations /\ inv.a.first < 1) => \A i \in Sending : SentFirst(xlog[i]) = 1

Advanced == Op = "get_project_items_advanced"
\* the first activation is the composed operation, and it raised
ComposedFailed == Advanced /\ xlog # <<>> /\ xlog[1].query # GetProjectItemsDoc /\ xlog[1].state = "raised"

\* C7: in get_project_items_advanced, when the composed operation fails and a
\* customization was supplied (field fragment, filter fragment or extra variables), the
\* default listing get_project_items is called and its result returned; with no
\* customization the failure propagates and no second request is made.
C7_FallbackOnCustomizedFailure ==
    ComposedFailed
    => IF Truthy(inv.a.custom_fields) \/ Truthy(inv.a.custom_filters) \/ Truthy(inv.a.custom_variables)
       THEN /\ Count(calls, "get_project_items") = 1
            /\ (pc = "done" /\ Len(xlog) = 2 /\ xlog[2].state = "returned" /\ xlog[2].r.value.t = "response"
                    /\ xlog[2].r.value.v.full)
               => result = Return(Page(xlog[2].r.value))
       ELSE /\ pc = "done"
            /\ Len(xlog) = 1
            /\ Count(calls, "get_project_items") = 0
            /\ result.kind = "raise"

\* C8: in get_project_items_advanced with a customization, when the composed operation
\* fails and the default listing fails too, the caller receives the failure of the
\* default listing (RateLimitError or GitHubAPIError; wrapped by the tool); the default
\* listing is called once, and its failure is neither masked nor retried by a further call.
C8_FallbackFailurePropagates ==
    Advanced
    => /\ Count(calls, "get_project_items") <= 1
       /\ Len(xlog) <= 2
       /\ (stage = "fallback" /\ xlog[Len(xlog)].state = "raised")
          => LET fb == xlog[Len(xlog)]
                 last == fb.outcomes[Len(fb.outcomes)]
             IN  /\ pc = "done"
                 /\ Count(calls, "get_project_items") = 1
                 /\ fb.r.exc = IF RateLimited(last) THEN "RateLimitError" ELSE "GitHubAPIError"
                 /\ fb.r.msg = IF RateLimited(last) THEN <<"Rate limit exceeded">> ELSE last.text
                 /\ IsClient => result = fb.r
                 /\ IsTool => /\ result.kind = "raise"
                              /\ result.msg = <<"GitHub API error: ">> \o fb.r.msg

C8_Witness ==
    /\ IsClient
    /\ Advanced
    /\ pc = "done"
    /\ Truthy(inv.a.custom_fields)
    /\ Len(xlog) = 2
    /\ xlog[1].state = "raised"
    /\ xlog[1].r.exc = "GitHubAPIError"
    /\ xlog[2].state = "raised"
    /\ xlog[2].r.exc = "RateLimitError"
    /\ result = xlog[2].r

\* C9: when custom_fields or custom_filters of get_project_items_advanced contains a
\* forbidden keyword, the call fails (a validation error) and no request is sent.
C9_ForbiddenFragmentRejected ==
    (Advanced /\ (ForbiddenFragment(inv.a.custom_fields) \/ ForbiddenFragment(inv.a.custom_filters)))
    => /\ Sending = {}
       /\ pc = "done" => result.kind = "raise"

\* the shape the value of update_item_field_value is to take
ShapedValue(value) ==
    CASE value.t = "str" -> PyDict(<<[k |-> "text", val |-> value]>>)
      [] value.t \in {"int", "float"} -> PyDict(<<[k |-> "number", val |-> value]>>)
      [] value.t = "dict" -> value
      [] OTHER -> PyDict(<<[k |-> "text", val |-> PyStr(Str(value))]>>)

\* C10: update_item_field_value sends {text: s} for a string s, {number: n} for a
\* number n, a mapping unchanged, and {text: str(value)} for any other value (a
\* boolean, a list, None).
C10_ValueShapedByType ==
    (Op = "update_item_field_value" /\ Sending # {})
    => xlog[1].variables["value"] = ShapedValue(inv.a.value)


\* the extra variables the client method is given
CustomVariables == IF IsTool THEN ToolArgs(inv.a).custom_variables ELSE inv.a.custom_variables
\* the request of the composed operation has been sent
Composed == Advanced /\ 1 \in Sending /\ xlog[1].query # GetProjectItemsDoc
\* the declared type the value of an extra variable calls for
DeclaredType(value) ==
    CASE value.t = "str" -> "String"
      [] value.t = "int" -> "Int"
      [] value.t = "bool" -> "Boolean"
      [] OTHER -> "?"
\* `$name: type` stands in the parameter list of the query text
Declares(query, name, type) == Contains(<<",", " ", "$", name, ":", " ", type>>, query)

\* C11: in get_project_items_advanced, every extra variable of custom_variables is
\* declared in the parameter list of the composed query with the type of its value
\* (String for a string, Int for an integer, Boolean for a boolean), and is passed in
\* the variables of the request with its value.
C11_ExtraVariablesDeclared ==
    (Composed /\ Truthy(CustomVariables))
    => \A i \in DOMAIN CustomVariables.v :
            LET item == CustomVariables.v[i]
            IN  /\ Declares(xlog[1].query, item.k, DeclaredType(item.val))
                /\ xlog[1].variables[item.k] = item.val


\* a filtering tool has ended after the remote answered its request with a page of a project
LastOutcome(act) == act.outcomes[Len(act.outcomes)]
HasPage ==
    /\ IsTool /\ IsFilterTool(Op) /\ pc = "done"
    /\ Len(xlog) = 1 /\ 1 \in Sending
    /\ LastOutcome(xlog[1]).kind = "ok" /\ LastOutcome(xlog[1]).full
FetchedPage == LastOutcome(xlog[1]).items_data
PageNodes == Get(FetchedPage, "nodes", None).v
Returned == result.kind = "return"
ResultNodes == Get(result.value, "nodes", None).v
InResult(item) == \E j \in DOMAIN ResultNodes : ResultNodes[j] = item
InPage(item) == \E i \in DOMAIN PageNodes : PageNodes[i] = item
\* the field values of an item
ValuesOf(item) == Get(Get(item, "fieldValues", None), "nodes", None).v
\* the entry `key` of d is populated with a text
Populated(d, key) == d.t = "dict" /\ Has(d, key) /\ Get(d, key, None).t = "str"

\* the query text occurs, whatever the case, in the title or the body of the content,
\* or in the text or the single-select name of a field value
TextMatches(item, query) ==
    LET content == Get(item, "content", None)
    IN  \/ Populated(content, "title") /\ HasCI(query, Get(content, "title", None).v)
        \/ Populated(content, "body") /\ HasCI(query, Get(content, "body", None).v)
        \/ \E i \in DOMAIN ValuesOf(item) :
                \/ Populated(ValuesOf(item)[i], "text") /\ HasCI(query, Get(ValuesOf(item)[i], "text", None).v)
                \/ Populated(ValuesOf(item)[i], "name") /\ HasCI(query, Get(ValuesOf(item)[i], "name", None).v)

\* C12: search_project_items without filters returns an item of the fetched page if and
\* only if the query occurs, case-insensitively, in the title or body of its content or
\* in the text or single-select name of one of its field values; the item titled
\* "Refactor login flow" is included for "login" and excluded for "logout".
C12_SearchMatchesText ==
    (HasPage /\ Op = "search_project_items" /\ ~Truthy(inv.a.filters))
    => /\ Returned
       /\ \A i \in DOMAIN PageNodes : InResult(PageNodes[i]) <=> TextMatches(PageNodes[i], inv.a.query)
       /\ \A j \in DOMAIN ResultNodes : InPage(ResultNodes[j])
       /\ (InPage(ItemIssue) /\ inv.a.query = TextLogin) => InResult(ItemIssue)
       /\ inv.a.query = TextLogout => ~InResult(ItemIssue)

C12_Witness ==
    /\ HasPage /\ Op = "search_project_items" /\ ~Truthy(inv.a.filters)
    /\ inv.a.query = TextLogin
    /\ PageNodes = <<ItemIssue, ItemDraft, ItemPull>>
    /\ Returned
    /\ ResultNodes = <<ItemIssue, ItemDraft>>


\* the populated variant of a field value equals the target: its text, single-select
\* name, stringified number or date is the target, or its multi-select names contain it
VariantEquals(field_value, target) ==
    \/ \E key \in {"text", "name", "date"} :
            Populated(field_value, key) /\ Get(field_value, key, None).v = target
    \/ Has(field_value, "number") /\ Str(Get(field_value, "number", None)) = target
    \/ /\ Has(field_value, "names")
       /\ \E n \in DOMAIN Get(field_value, "names", None).v : Get(field_value, "names", None).v[n].v = target
\* the field value belongs to the field field_id
OfField(field_value, field_id) ==
    /\ Has(field_value, "field")
    /\ Get(Get(field_value, "field", None), "id", None).v = field_id
ValueMatches(item, field_id, target) ==
    \E i \in DOMAIN ValuesOf(item) :
        OfField(ValuesOf(item)[i], field_id) /\ VariantEquals(ValuesOf(item)[i], target)

\* C13: get_items_by_field_value returns an item of the fetched page if and only if one
\* of its field values belongs to the field field_id and has a populated variant equal
\* to the target value; a value of another field never makes an item match.
C13_FieldValueMatches ==
    (HasPage /\ Op = "get_items_by_field_value")
    => /\ Returned
       /\ \A i \in DOMAIN PageNodes :
            InResult(PageNodes[i]) <=> ValueMatches(PageNodes[i], inv.a.field_id, inv.a.value.v)
       /\ \A j \in DOMAIN ResultNodes : InPage(ResultNodes[j])

C13_Witness ==
    /\ HasPage /\ Op = "get_items_by_field_value"
    /\ inv.a.field_id = <<"PVTF_1">> /\ inv.a.value.v = TextBackend
    /\ PageNodes = <<ItemPull, ItemIssue>>
    /\ Returned
    /\ ResultNodes = <<ItemIssue>>


\* d has a milestone whose title is exactly name
HasMilestone(d, name) ==
    /\ d.t = "dict" /\ Has(d, "milestone")
    /\ Populated(Get(d, "milestone", None), "title")
    /\ Get(Get(d, "milestone", None), "title", None).v = name
MilestoneMatches(item, name) ==
    \/ HasMilestone(Get(item, "content", None), name)
    \/ \E i \in DOMAIN ValuesOf(item) : HasMilestone(ValuesOf(item)[i], name)

PagePosition(item) == CHOOSE i \in DOMAIN PageNodes : PageNodes[i] = item
\* the returned nodes are items of the page, in the order of the page, none twice
InPageOrder ==
    /\ \A j \in DOMAIN ResultNodes : InPage(ResultNodes[j])
    /\ \A j, k \in DOMAIN ResultNodes :
            j < k => PagePosition(ResultNodes[j]) < PagePosition(ResultNodes[k])

\* C15: every successful result of search_project_items, get_items_by_field_value and
\* get_items_by_milestone carries the pageInfo of the single fetched page unchanged,
\* nodes that are a subsequence of the page's nodes (original order, no item twice),
\* and totalMatches equal to the number of returned nodes.
C15_FilterResultFrame ==
    (IsTool /\ IsFilterTool(Op) /\ pc = "done" /\ Returned)
    => /\ HasPage
       /\ DictKeys(result.value.v) = {"nodes", "pageInfo", "totalMatches"}
       /\ Get(result.value, "pageInfo", None) = Get(FetchedPage, "pageInfo", None)
       /\ InPageOrder
       /\ Get(result.value, "totalMatches", None) = PyInt(Len(ResultNodes))

C15_Witness ==
    /\ HasPage /\ Op = "get_items_by_field_value" /\ Returned
    /\ PageNodes = <<ItemIssue, ItemDraft, ItemPull>>
    /\ Get(Get(result.value, "pageInfo", None), "hasNextPage", None) = PyBool(TRUE)
    /\ ResultNodes = <<ItemPull>>
    /\ Get(result.value, "totalMatches", None) = PyInt(1)


----------------------------------------------------------------------------
(* C16 *)

\* the i-th activation of _execute_with_retry ended by raising RateLimitError or GitHubAPIError
Classified(i) ==
    xlog[i].state = "raised" /\ xlog[i].r.exc \in {"GitHubAPIError", "RateLimitError"}

\* the failure of the composed operation that the advanced listing answers with the standard listing
FallbackTaken(i) ==
    /\ Op = "get_project_items_advanced"
    /\ i = 1
    /\ Len(xlog) = 2
    /\ FallsBack(inv.a.custom_fields, inv.a.custom_filters)

UniformFailure(msg) == Raise("Exception", <<"GitHub API error: ">> \o msg, None)

\* C16: when a tool's invocation is over and the client raised RateLimitError or GitHubAPIError
\* during it, the tool's outcome is the exception Exception("GitHub API error: " + the original
\* message), except for the failure of the composed operation of the advanced listing when the
\* standard listing was tried in its place.
C16_ClassifiedFailureUniform ==
    (IsTool /\ pc = "done")
    => \A i \in 1..Len(xlog) :
          Classified(i) => (result = UniformFailure(xlog[i].r.msg) \/ FallbackTaken(i))

C16_Witness ==
    /\ IsTool /\ pc = "done" /\ Op = "get_project"
    /\ Len(xlog) = 1 /\ Classified(1)
    /\ xlog[1].r.exc = "RateLimitError"
    /\ result = UniformFailure(<<"Rate limit exceeded">>)

----------------------------------------------------------------------------
(* C17 *)

\* C17: a tool never ends with a raw exception: whenever a tool's invocation fails, what
\* reaches the caller is the tool's own Exception (the wrapped failure), also when the
\* cause was neither RateLimitError nor GitHubAPIError (ValueError of a missing token,
\* TypeError on a null response).
C17_UnexpectedFailureWrapped ==
    (IsTool /\ pc = "done" /\ result.kind = "raise") => result.exc = "Exception"

----------------------------------------------------------------------------
(* C18 *)

\* the structured parameter of the invocation that holds a text that is not JSON, or "" if none does
Malformed ==
    CASE Op = "get_project_items_advanced" /\ inv.a.custom_variables = PyStr(JsonBad) -> "custom_variables"
      [] Op = "execute_custom_project_query" /\ inv.a.variables = PyStr(JsonBad) -> "variables"
      [] Op = "search_project_items" /\ inv.a.filters = PyStr(JsonBad) -> "filters"
      [] OTHER -> ""

\* the validation failure as the caller sees it
InvalidJsonMessage(parameter) ==
    CASE parameter = "custom_variables" -> <<"Unexpected error: ", "Invalid JSON in custom_variables parameter">>
      [] parameter = "variables" -> <<"Unexpected error: ", "Invalid JSON in variables parameter">>
      [] parameter = "filters" -> <<"Unexpected error: ", "Invalid JSON in filters parameter">>

\* C18: when custom_variables of get_project_items_advanced, variables of
\* execute_custom_project_query or filters of search_project_items is not valid JSON, the
\* tool fails at once, no request is sent and no client method is entered; in a process
\* that has its token the failure is the validation failure naming the parameter (in a
\* process without token the tool has already failed in get_github_client).
C18_InvalidJsonRejected ==
    (IsTool /\ Malformed # "")
    => /\ pc = "done"
       /\ xlog = <<>>
       /\ calls = <<>>
       /\ result.kind = "raise"
       /\ result.exc = "Exception"
       /\ env.token => result.msg = InvalidJsonMessage(Malformed)

C18_Witness ==
    /\ IsTool /\ Op = "search_project_items"
    /\ Malformed = "filters"
    /\ env.token
    /\ pc = "done"
    /\ xlog = <<>>
    /\ result = Raise("Exception", InvalidJsonMessage("filters"), None)

----------------------------------------------------------------------------
(* C19 *)

\* the process is past startup: it is serving, or has served, invocations
Serving == pc \notin {"start", "exited"}

\* C19: a process whose GITHUB_TOKEN is absent or empty never reaches serving: main()
\* fails at startup, so no tool invocation is accepted by a process without token.
C19_NoServingWithoutToken ==
    ~env.token => (~Serving /\ inv.layer # "tool")

----------------------------------------------------------------------------
(* C20 *)

\* C20: in one process a GitHubProjectsClient is constructed at most once; the handle
\* changes only in the invocation that constructs it, from unset to the new object, and
\* from then on every invocation gets that same handle; an invocation whose construction
\* fails leaves the handle unset.
C20_ClientConstructedOnce ==
    /\ [](github_client.serial <= 1)
    /\ [](~github_client.built => github_client = NoClient)
    /\ []((IsTool /\ ~env.token) => (github_client = NoClient /\ ~inv.constructed))
    /\ [][/\ github_client.built => github_client' = github_client
          /\ github_client' # github_client
                => (github_client = NoClient /\ github_client'.built /\ inv'.constructed)]_vars

\* an invocation served with the handle an earlier invocation constructed
C20_Witness ==
    /\ IsTool /\ pc = "done"
    /\ github_client.built /\ github_client.serial = 1
    /\ ~inv.constructed
    /\ result.kind = "return"

----------------------------------------------------------------------------
(* C21 *)

\* the requests sent to the remote during the invocation: one per answered attempt
RECURSIVE RequestsOf(_)
RequestsOf(activations) ==
    IF activations = <<>> THEN 0
    ELSE Len(Head(activations).outcomes) + RequestsOf(Tail(activations))

\* C21: during one tool invocation at most max_retries + 1 requests are sent to the
\* remote, whatever the remote answers.
C21_RequestsWithinRetryBudget ==
    (IsTool /\ github_client.built) => RequestsOf(xlog) <= github_client.max_retries + 1

----------------------------------------------------------------------------
(* C22 *)

\* the state of the issue or pull request of an item, as the document of
\* search_project_items has it returned (issueState: state / prState: state)
ContentState(item) ==
    LET content == Get(item, "content", None)
    IN  IF content.t # "dict" THEN None
        ELSE IF Has(content, "issueState") THEN Get(content, "issueState", None)
        ELSE Get(content, "prState", None)

StateFilter == IsTool /\ Op = "search_project_items" /\ inv.a.filters = PyStr(JsonStateOpen)

\* C22: search_project_items with filters {"state": "OPEN"} returns an item of the
\* fetched page if and only if the item matches the query text and the state of its
\* issue or pull request is OPEN.
C22_StateFilterKeepsMatches ==
    (HasPage /\ StateFilter /\ Returned)
    => \A i \in DOMAIN PageNodes :
          InResult(PageNodes[i])
          <=> (TextMatches(PageNodes[i], inv.a.query) /\ ContentState(PageNodes[i]) = PyStr(<<"OPEN">>))

----------------------------------------------------------------------------
(* C23 *)

\* the caller invokes one of the three filtering tools
FilterCall ==
    \/ Tool_search_project_items
    \/ Tool_get_items_by_field_value
    \/ Tool_get_items_by_milestone

\* a call of a filtering tool whose request asks for the page after the cursor the caller holds
NextPageCall == FilterCall /\ xlog' # <<>> /\ xlog'[1].variables["after"] = cursor

\* C23: a caller that got from a filtering tool a page with hasNextPage true can go on to
\* the next page: a call of a filtering tool is possible whose request carries the
\* returned pageInfo.endCursor as `after`.
C23_NextPageReachable ==
    (pc = "idle" /\ cursor # None) => ENABLED NextPageCall

----------------------------------------------------------------------------
(* C24, C25, C30 *)

\* the last access to the Config object was `op`
Accessed(op) == inv.layer = "config" /\ inv.a.op = op
\* this step is an access `op` to the Config object
Accessing(op) == inv'.layer = "config" /\ inv'.a.op = op /\ <<inv', config', result'>> # <<inv, config, result>>

AllowedTransports == {<<"s", "t", "d", "i", "o">>, <<"s", "s", "e">>, <<"h", "t", "t", "p">>}

\* C24: validate_transport raises ValueError if and only if the transport of the object
\* (what reading config.transport yields) is not one of stdio, sse, http; on an object
\* not yet touched, with MCP_TRANSPORT unset, the transport is stdio and it returns.
C24_ValidateTransport ==
    /\ [](Accessed("validate_transport")
            => /\ result.kind = "raise" <=> config._transport.v \notin AllowedTransports
               /\ result.kind = "raise" => result.exc = "ValueError"
               /\ result.kind # "raise" => result = Return(None)
               /\ transport(config, env).r.value = config._transport)
    /\ [][(Accessing("validate_transport") /\ config = NewConfig /\ env.mcp_transport = None)
            => (result' = Return(None) /\ config'._transport = PyStr(<<"s", "t", "d", "i", "o">>))]_vars

C24_Witness ==
    /\ Accessed("validate_transport")
    /\ env.mcp_transport = None
    /\ config._transport = PyStr(<<"i", "n", "v", "a", "l", "i", "d">>)
    /\ result.kind = "raise" /\ result.exc = "ValueError"

\* MCP_TRANSPORT is set to a value that is none of stdio, sse, http (in any case)
InvalidTransportSetting ==
    env.mcp_transport # None /\ Lower(env.mcp_transport.v) \notin AllowedTransports

\* C25: with MCP_TRANSPORT set to a value outside stdio, sse, http the process never
\* serves: main() ends it with a non-zero status.
C25_InvalidTransportNeverServes ==
    InvalidTransportSetting => ~Serving

\* C30: reading config.transport right after assigning v to it yields v, also when the
\* assignment is the first access to the object, and validate_transport right after the
\* assignment validates v.
C30_TransportSetThenGet ==
    [][/\ (Accessed("transport.setter") /\ Accessing("transport")) => result' = Return(inv.a.value)
       /\ (Accessed("transport.setter") /\ Accessing("validate_transport"))
            => (result'.kind = "raise" <=> inv.a.value.v \notin AllowedTransports)]_vars

----------------------------------------------------------------------------
(* C26, C27 *)

\* the activation has ended with the remote's answer to its last attempt
ReturnsLastAnswer(act) ==
    /\ act.outcomes # <<>>
    /\ LastOutcome(act).kind = "ok"
    /\ act.state = "returned"
    /\ act.r = Return(Response(LastOutcome(act).full, act.query, act.variables))

\* C26: with max_retries = N >= 0 an activation of _execute_with_retry makes at most N + 1
\* attempts and while it runs another attempt is left; when it has ended it has slept
\* once less than it has attempted; a success ends it at once with that attempt's
\* result, all earlier attempts having failed with a rate-limit text.
C26_BoundedAttemptsAndSleeps ==
    \A i \in DOMAIN xlog :
        LET act == xlog[i]
            N == github_client.max_retries
        IN  N >= 0
            => /\ Len(act.outcomes) <= N + 1
               /\ act.state = "running" => (Len(act.outcomes) <= N /\ Len(act.sleeps) = Len(act.outcomes))
               /\ act.state # "running" => (Len(act.outcomes) >= 1 /\ Len(act.sleeps) = Len(act.outcomes) - 1)
               /\ \A j \in DOMAIN act.outcomes :
                     act.outcomes[j].kind = "ok"
                     => /\ j = Len(act.outcomes)
                        /\ ReturnsLastAnswer(act)
                        /\ \A k \in 1..(j - 1) : RateLimited(act.outcomes[k])

C26_Witness ==
    /\ pc = "done"
    /\ github_client.max_retries = 2
    /\ Len(xlog) = 1
    /\ Len(xlog[1].outcomes) = 3
    /\ Len(xlog[1].sleeps) = 2
    /\ RateLimited(xlog[1].outcomes[1]) /\ RateLimited(xlog[1].outcomes[2])
    /\ ReturnsLastAnswer(xlog[1])

\* C27: every activation of _execute_with_retry that has ended has made at least one
\* attempt, and it either returned the remote's answer to its last attempt or raised
\* RateLimitError or GitHubAPIError, whatever max_retries the environment supplies.
C27_EndsWithResultOrFailure ==
    \A i \in DOMAIN xlog :
        xlog[i].state # "running"
        => /\ xlog[i].outcomes # <<>>
           /\ \/ ReturnsLastAnswer(xlog[i])
              \/ xlog[i].state = "raised" /\ xlog[i].r.exc \in {"GitHubAPIError", "RateLimitError"}

----------------------------------------------------------------------------
(* C28, C29 *)

\* C28: get_items_by_milestone returns for every page the remote answers with, also a
\* page with an item whose content is null or whose content has a null milestone, and
\* the result holds exactly the items whose content milestone or milestone-typed field
\* value has the title milestone_name.
C28_MilestoneFilterNeverFails ==
    (HasPage /\ Op = "get_items_by_milestone")
    => /\ Returned
       /\ \A i \in DOMAIN PageNodes :
            MilestoneMatches(PageNodes[i], inv.a.milestone_name) => InResult(PageNodes[i])

\* the remote answered the request of a filtering tool with data whose node is null
NullNode ==
    /\ IsTool /\ IsFilterTool(Op) /\ pc = "done"
    /\ Len(xlog) = 1 /\ 1 \in Sending
    /\ LastOutcome(xlog[1]).kind = "ok" /\ ~LastOutcome(xlog[1]).full

\* C29: when the remote answers the page request of search_project_items,
\* get_items_by_field_value or get_items_by_milestone with a null node, the tool fails
\* with an Exception whose message ends with "Project not found"; it returns nothing.
C29_NullNodeIsProjectNotFound ==
    NullNode => result = Raise("Exception", <<"Unexpected error: ", "Project not found">>, None)

C29_Witness ==
    /\ NullNode
    /\ Op = "get_items_by_field_value"
    /\ result.kind = "raise"
    /\ result.msg[Len(result.msg)] = "Project not found"
=============================================================================
